---- MODULE Spec2Model ----
(***************************************************************************)
(* PodcastScraper (src/rss_feed.py): the per-episode synchronisation of    *)
(* documents and manifest, run as asyncio tasks behind a semaphore and a   *)
(* manifest lock.                                                          *)
(*                                                                         *)
(* Text is modelled as a sequence of atoms, each atom a chunk of           *)
(* characters: a document is the sequence of atoms process_episode writes, *)
(* and reading a document back applies the code's split()/strip() to that  *)
(* sequence.                                                               *)
(***************************************************************************)
EXTENDS Integers, Sequences, FiniteSets, TLC

\* ------------------------------------------------------------------ bounds
\* Number of episodes the YouTube listing yields (ids 1..NumEpisodes).
NumEpisodes == 3
\* Number of successive runs of the scraper (one process each).
MaxRuns == 2
MaxFaults == 2
\* Number of entries of the manifest cleanup() reads, and number of
\* successive cleanup() calls.
MaxEntries == 3
MaxCleanups == 2
\* Length, in atoms, of the text given to _clean_transcript.
MaxRawLen == 6

\* ------------------------------------------------------- program constants
CONCURRENCY_LIMIT == 2
MinDocLen == 500

Ids == 1..NumEpisodes

\* -------------------------------------------------------------------- text
\* Atoms of a document: "hdr" is the title and published-date lines, "HD",
\* "HL", "HT" are the three headings with their newline, "nl" is the blank
\* space that ends a section, "w" a short chunk of plain text, "W" a long
\* one, "l" a block of link lines, "##x" a chunk of text that starts with
\* the characters "##".
AtomLen(a) ==
    CASE a = "hdr" -> 40
      [] a = "HD"  -> 15
      [] a = "HL"  -> 9
      [] a = "HT"  -> 14
      [] a = "nl"  -> 2
      [] a = "w"   -> 20
      [] a = "W"   -> 600
      [] a = "l"   -> 40
      [] a = "##x" -> 10
      [] OTHER     -> 1

RECURSIVE CharLen(_)
CharLen(s) == IF s = <<>> THEN 0 ELSE AtomLen(Head(s)) + CharLen(Tail(s))

\* The atom contains the two characters "##".
HasHashes(a) == a \in {"HD", "HL", "HT", "##x"}

\* `h in content`
Contains(content, h) == \E k \in 1..Len(content) : content[k] = h

\* Index of the first atom of s satisfying the test, Len(s)+1 when none.
FirstIndex(s, Test(_)) ==
    IF \E k \in 1..Len(s) : Test(s[k])
    THEN CHOOSE k \in 1..Len(s) : Test(s[k]) /\ \A j \in 1..(k - 1) : ~Test(s[j])
    ELSE Len(s) + 1

\* content.split(h)[1]: what lies between the first occurrence of h and the
\* next one (or the end).
SplitSecond(content, h) ==
    LET IsH(a) == a = h
        rest == SubSeq(content, FirstIndex(content, IsH) + 1, Len(content))
    IN  SubSeq(rest, 1, FirstIndex(rest, IsH) - 1)

\* text.split("##")[0]
SplitHashesFirst(text) == SubSeq(text, 1, FirstIndex(text, HasHashes) - 1)

RECURSIVE lstrip(_)
lstrip(s) == IF s # <<>> /\ Head(s) = "nl" THEN lstrip(Tail(s)) ELSE s

RECURSIVE rstrip(_)
rstrip(s) ==
    IF s # <<>> /\ s[Len(s)] = "nl" THEN rstrip(SubSeq(s, 1, Len(s) - 1)) ELSE s

\* str.strip()
strip(s) == rstrip(lstrip(s))

\* ------------------------------------------------------------------ titles
\* Title atoms: a letter is a word, "?" one of the characters
\* _clean_filename removes, " " a blank.
Letters == <<"A", "B", "C", "D", "E", "F">>
ProblemChars == {"?"}

\* The titles the YouTube listing can give: one of its own for each video,
\* and a title that differs from the first video's by a removed character
\* only.
VideoTitle(i) == <<Letters[i], "?">>
VideoTitles == {VideoTitle(i) : i \in 1..NumEpisodes} \cup {<<Letters[1]>>}

\* The listing: the title of each video.
VARIABLE listing

\* The title the YouTube listing gives for video id i.
TitleOf(i) == listing[i]

RECURSIVE CollapseBlanks(_)
CollapseBlanks(s) ==
    IF Len(s) < 2 THEN s
    ELSE IF s[1] = " " /\ s[2] = " " THEN CollapseBlanks(Tail(s))
    ELSE <<Head(s)>> \o CollapseBlanks(Tail(s))

RECURSIVE StripBlanks(_)
StripBlanks(s) ==
    IF s # <<>> /\ Head(s) = " " THEN StripBlanks(Tail(s))
    ELSE IF s # <<>> /\ s[Len(s)] = " " THEN StripBlanks(SubSeq(s, 1, Len(s) - 1))
    ELSE s

_clean_filename(title) ==
    LET Keep(a) == a \notin ProblemChars
    IN  StripBlanks(CollapseBlanks(SelectSeq(title, Keep)))

\* _clean_filename of each title of the listing, computed once.
CleanName == [t \in VideoTitles |-> _clean_filename(t)]

\* file_path of episode i
FilePath(i) == CleanName[TitleOf(i)]

Files == {CleanName[t] : t \in VideoTitles}

\* ----------------------------------------------------------- external data
\* What the Spotify page and the YouTube transcript of episode i hold when
\* the fetch succeeds; three kinds of episode, by id.
Kind(i) == i % 3

\* description_text after _clean_description_text
ExtDescription(i) ==
    CASE Kind(i) = 1 -> <<"W">>
      [] Kind(i) = 2 -> <<"w", "##x", "w">>
      [] OTHER       -> <<"w">>

\* links_text: the links of the description, or the URLs found in its text
ExtLinks(i) ==
    CASE Kind(i) = 1 -> <<"l">>
      [] Kind(i) = 2 -> <<>>
      [] OTHER       -> <<"l">>

\* formatter.format_transcript(transcript_list)
ExtTranscript(i) ==
    CASE Kind(i) = 1 -> <<"w">>
      [] Kind(i) = 2 -> <<"W">>
      [] OTHER       -> <<"W">>

\* Outcomes of one fetch: "fail" is an exception or nothing extracted, "ok"
\* the text above.
Outcomes == {"fail", "ok"}

\* ---------------------------------------------------------------- manifest
NoEntry ==
    [present |-> FALSE, title |-> <<>>, has_description |-> FALSE,
     has_transcript |-> FALSE, last_updated |-> 0]

EmptyEpisodes == [i \in Ids |-> NoEntry]

\* The manifest file: absent, unreadable, or holding an episodes mapping.
AbsentFile == [state |-> "absent", episodes |-> EmptyEpisodes]
CorruptFile == [state |-> "corrupt", episodes |-> EmptyEpisodes]

NoDoc == [exists |-> FALSE, content |-> <<>>]
\* A document whose write broke off after the file was opened for writing.
TruncatedDoc == [exists |-> TRUE, content |-> <<>>]

VARIABLES
    run,              \* number of runs that scheduled their tasks so far
    phase,            \* "idle" between runs, "running" inside run()
    nUrls,            \* len(spotify_urls) of the current run
    stored,           \* the manifest file
    docs,             \* the documents, by file name
    manifest,         \* self.manifest["episodes"]
    semaphore,        \* free permits of self.semaphore
    manifest_lock,    \* the task holding self.manifest_lock, 0 when free
    pc,               \* position of each process_episode task
    fetch_desc,       \* locals of each task
    fetch_trans,
    description_text,
    links_text,
    transcript_text,
    context_open,     \* the task holds an open browsing context
    \* history, for the properties only
    requested,        \* the task made a page or transcript request
    desc_out,         \* outcome of the task's description fetch, "none" if not made
    trans_out,        \* outcome of the task's transcript fetch, "none" if not made
    wrote,            \* the task wrote its document
    committed,        \* the entry the task saved in this run, or NoEntry
    run_result,       \* how the last run() ended
    start_ok,         \* per entry: it was up to date when the current run started
    faults,           \* storage and browser errors raised so far
    \* cleanup_data.py
    data_manifest,    \* manifest.json of DATA_DIR as cleanup() finds it
    data_files,       \* names of the *.md files of DATA_DIR
    groups,           \* history: the groups formed by the last cleanup()
    cleanups,         \* number of cleanup() calls so far
    \* _clean_transcript
    raw_text,         \* the argument of the call
    cleaned           \* its result, NotCalled before the call

task_vars ==
    <<fetch_desc, fetch_trans, description_text, links_text, transcript_text>>
hist_vars == <<requested, desc_out, trans_out, wrote>>
run_vars == <<run, phase, nUrls, run_result, start_ok>>
persistent == <<stored, docs>>
script_vars == <<data_manifest, data_files, groups, cleanups, raw_text, cleaned>>

vars ==
    <<listing, run, phase, nUrls, stored, docs, manifest, semaphore, manifest_lock, pc,
      fetch_desc, fetch_trans, description_text, links_text, transcript_text,
      context_open, requested, desc_out, trans_out, wrote, committed,
      run_result, start_ok, faults,
      data_manifest, data_files, groups, cleanups, raw_text, cleaned>>

\* _load_manifest: the file's mapping, or the empty default when the file is
\* absent or json.loads raises.
_load_manifest_m(file) == EmptyEpisodes
_load_manifest(file) ==
    IF file.state = "ok" THEN file.episodes ELSE EmptyEpisodes

\* status.get(flag, False) on self.manifest["episodes"].get(entry_id, {})
StatusGet(i, flag) ==
    IF manifest[i].present THEN manifest[i][flag] ELSE FALSE

\* EpisodeEntry.get: getattr(self, key, default)
EntryAttrs == {"id", "title", "link", "published"}
EpisodeEntry_get(i, key, default) ==
    IF key \in EntryAttrs
    THEN (IF key = "title" THEN TitleOf(i) ELSE <<key>>)
    ELSE default

\* spotify_urls[i] if i < len(spotify_urls) else None
HasSpotifyUrl(i) == i <= nUrls

\* The sections process_episode recovers from an existing document.
ReadDescription(content) ==
    IF Contains(content, "HD")
    THEN strip(SplitHashesFirst(SplitSecond(content, "HD")))
    ELSE <<>>

ReadLinks(content) ==
    IF Contains(content, "HL")
    THEN strip(SplitHashesFirst(SplitSecond(content, "HL")))
    ELSE <<>>

ReadTranscript(content) ==
    IF Contains(content, "HT")
    THEN strip(SplitSecond(content, "HT"))
    ELSE <<>>

\* The markdown process_episode writes.
Markdown_m(d, l, t) ==
    <<"hdr">>
    \o (IF d # <<>> THEN <<"HD">> \o d \o <<"nl">> ELSE <<>>)
    \o (IF l # <<>> THEN <<"HL">> \o l \o <<"nl">> ELSE <<>>)
    \o <<"HT">> \o t \o <<"nl">>
Markdown(d, l, t) ==
    <<"hdr">>
    \o (IF d # <<>> THEN <<"HD">> \o d \o <<"nl">> ELSE <<>>)
    \o (IF l # <<>> THEN <<"HL">> \o l \o <<"nl">> ELSE <<>>)
    \o (IF t # <<>> THEN <<"HT">> \o t \o <<"nl">> ELSE <<>>)

\* The fetch decision.
NeedsDescription(i) ==
    LET f == docs[FilePath(i)]
    IN  \/ ~StatusGet(i, "has_description")
        \/ ~f.exists
        \/ ~Contains(f.content, "HL")
        \/ CharLen(f.content) < MinDocLen

NeedsTranscript_m(i) == TRUE
NeedsTranscript(i) ==
    \/ ~StatusGet(i, "has_transcript")
    \/ ~docs[FilePath(i)].exists

\* The entry process_episode sets for its id, from the texts d and t it
\* holds when it commits.
EntryFor_m(i, d, t) ==
    [present |-> TRUE,
     title |-> TitleOf(i),
     has_description |-> EpisodeEntry_get(i, "has_description", FALSE),
     has_transcript |-> EpisodeEntry_get(i, "has_transcript", FALSE),
     last_updated |-> run]
EntryFor(i, d, t) ==
    [present |-> TRUE,
     title |-> TitleOf(i),
     has_description |->
        IF fetch_desc[i] THEN d # <<>>
        ELSE EpisodeEntry_get(i, "has_description", FALSE),
     has_transcript |->
        IF fetch_trans[i] THEN t # <<>>
        ELSE EpisodeEntry_get(i, "has_transcript", FALSE),
     last_updated |-> run]

NewEntry(i) == EntryFor(i, description_text[i], transcript_text[i])

\* Entry i is up to date: both flags stored true, and a document with a
\* Links section and at least MinDocLen characters.
UpToDate(i) ==
    /\ stored.state = "ok"
    /\ stored.episodes[i].present
    /\ stored.episodes[i].has_description
    /\ stored.episodes[i].has_transcript
    /\ docs[FilePath(i)].exists
    /\ Contains(docs[FilePath(i)].content, "HL")
    /\ CharLen(docs[FilePath(i)].content) >= MinDocLen

\* -------------------------------------------------------------------- Init
\* No script has been run.
NoManifest == [exists |-> FALSE, episodes |-> <<>>]
NotCalled == <<"not called">>
InitScripts ==
    /\ data_manifest = NoManifest
    /\ data_files = {}
    /\ groups = <<>>
    /\ cleanups = 0
    /\ raw_text = <<>>
    /\ cleaned = NotCalled

\* No process is running: nothing is in memory.
InitProcess ==
    /\ phase = "idle"
    /\ nUrls = 0
    /\ manifest = EmptyEpisodes
    /\ semaphore = CONCURRENCY_LIMIT
    /\ manifest_lock = 0
    /\ pc = [i \in Ids |-> "idle"]
    /\ fetch_desc = [i \in Ids |-> FALSE]
    /\ fetch_trans = [i \in Ids |-> FALSE]
    /\ description_text = [i \in Ids |-> <<>>]
    /\ links_text = [i \in Ids |-> <<>>]
    /\ transcript_text = [i \in Ids |-> <<>>]
    /\ context_open = [i \in Ids |-> FALSE]
    /\ requested = [i \in Ids |-> FALSE]
    /\ desc_out = [i \in Ids |-> "none"]
    /\ trans_out = [i \in Ids |-> "none"]
    /\ wrote = [i \in Ids |-> FALSE]
    /\ committed = [i \in Ids |-> NoEntry]
    /\ run_result = "none"
    /\ start_ok = [i \in Ids |-> FALSE]
    /\ faults = 0

\* PodcastScraper has not been started, the output directory is empty.
InitScraper ==
    /\ listing = [i \in Ids |-> VideoTitle(i)]
    /\ run = 0
    /\ stored = AbsentFile
    /\ docs = [f \in Files |-> NoDoc]
    /\ InitProcess

Init == InitScraper /\ InitScripts

\* The task's locals and history as they are before the task starts.
ResetTask(i) ==
    /\ fetch_desc' = [fetch_desc EXCEPT ![i] = FALSE]
    /\ fetch_trans' = [fetch_trans EXCEPT ![i] = FALSE]
    /\ description_text' = [description_text EXCEPT ![i] = <<>>]
    /\ links_text' = [links_text EXCEPT ![i] = <<>>]
    /\ transcript_text' = [transcript_text EXCEPT ![i] = <<>>]
    /\ requested' = [requested EXCEPT ![i] = FALSE]
    /\ desc_out' = [desc_out EXCEPT ![i] = "none"]
    /\ trans_out' = [trans_out EXCEPT ![i] = "none"]
    /\ wrote' = [wrote EXCEPT ![i] = FALSE]

\* The process is gone: nothing of a run is left in memory.
ProcessExit ==
    /\ phase' = "idle"
    /\ nUrls' = 0
    /\ manifest' = EmptyEpisodes
    /\ semaphore' = CONCURRENCY_LIMIT
    /\ manifest_lock' = 0
    /\ pc' = [i \in Ids |-> "idle"]
    /\ fetch_desc' = [i \in Ids |-> FALSE]
    /\ fetch_trans' = [i \in Ids |-> FALSE]
    /\ description_text' = [i \in Ids |-> <<>>]
    /\ links_text' = [i \in Ids |-> <<>>]
    /\ transcript_text' = [i \in Ids |-> <<>>]
    /\ context_open' = [i \in Ids |-> FALSE]
    /\ requested' = [i \in Ids |-> FALSE]
    /\ desc_out' = [i \in Ids |-> "none"]
    /\ trans_out' = [i \in Ids |-> "none"]
    /\ wrote' = [i \in Ids |-> FALSE]
    /\ committed' = [i \in Ids |-> NoEntry]
    /\ start_ok' = [i \in Ids |-> FALSE]

\* ----------------------------------------------------------------- actions
\* PodcastScraper() and run() up to the gather: the manifest is loaded, both
\* listings are read (the Spotify one may fail and give no URL), one task
\* per entry is scheduled.
StartRun ==
    /\ phase = "idle"
    /\ run < MaxRuns
    /\ run' = run + 1
    /\ phase' = "running"
    /\ \E n \in {0, NumEpisodes} : nUrls' = n
    /\ manifest' = _load_manifest(stored)
    /\ pc' = [i \in Ids |-> "queued"]
    /\ run_result' = "none"
    /\ start_ok' = [i \in Ids |-> UpToDate(i)]
    /\ UNCHANGED <<listing, script_vars>>
    /\ UNCHANGED <<faults, persistent, semaphore, manifest_lock, task_vars,
                   context_open, hist_vars, committed>>

\* run() when the YouTube listing fails or is empty: it returns, no task is
\* scheduled (such a run is not counted in `run`).
DiscoveryFails ==
    /\ phase = "idle"
    /\ run < MaxRuns
    /\ run_result # "no_entries"
    /\ run_result' = "no_entries"
    /\ UNCHANGED <<listing, script_vars>>
    /\ UNCHANGED <<faults, run, phase, nUrls, persistent, manifest, semaphore,
                   manifest_lock, pc, task_vars, context_open, hist_vars,
                   committed, start_ok>>

\* async with self.semaphore: a permit is free, and the tasks listed before
\* this one have passed (the waiters are woken in order).
GateOpen_m(i) == semaphore >= 0
GateOpen(i) == semaphore > 0

\* "Skipping ..., already up to date.": return.
SkipPath_m(i) ==
    /\ pc' = [pc EXCEPT ![i] = "skipped"]
    /\ manifest' = [manifest EXCEPT ![i].last_updated = run]
    /\ UNCHANGED <<semaphore, task_vars>>
SkipPath(i) ==
    /\ pc' = [pc EXCEPT ![i] = "skipped"]
    /\ UNCHANGED <<manifest, semaphore, task_vars>>

\* "Processing ...": on to browser.new_context with the permit held.
FetchPath(i) ==
    /\ pc' = [pc EXCEPT ![i] = "opening"]
    /\ semaphore' = semaphore - 1
    /\ fetch_desc' = [fetch_desc EXCEPT ![i] = NeedsDescription(i)]
    /\ fetch_trans' = [fetch_trans EXCEPT ![i] = NeedsTranscript(i)]
    /\ UNCHANGED <<manifest, description_text, links_text, transcript_text>>

\* The gate, then the fetch decision.
Admit(i) ==
    /\ phase = "running"
    /\ pc[i] = "queued"
    /\ \A j \in Ids : j < i => pc[j] # "queued"
    /\ GateOpen(i)
    /\ IF ~NeedsDescription(i) /\ ~NeedsTranscript(i)
       THEN SkipPath(i)
       ELSE FetchPath(i)
    /\ UNCHANGED <<listing, script_vars>>
    /\ UNCHANGED <<faults, run_vars, persistent, manifest_lock, context_open, hist_vars,
                   committed>>

\* browser.new_context, new_page, route; the existing document is read for
\* the sections to preserve; 1. Fetch Description from Spotify.
OpenAndFetchDescription(i) ==
    /\ pc[i] = "opening"
    /\ \E out \in (IF fetch_desc[i] /\ HasSpotifyUrl(i) THEN Outcomes ELSE {"none"}) :
          LET f == docs[FilePath(i)]
              d == IF f.exists THEN ReadDescription(f.content) ELSE <<>>
              l == IF f.exists THEN ReadLinks(f.content) ELSE <<>>
              t == IF f.exists THEN ReadTranscript(f.content) ELSE <<>>
          IN  /\ description_text' =
                    [description_text EXCEPT ![i] =
                        IF out = "ok" THEN ExtDescription(i) ELSE d]
              /\ links_text' =
                    [links_text EXCEPT ![i] = IF out = "ok" THEN ExtLinks(i) ELSE l]
              /\ transcript_text' = [transcript_text EXCEPT ![i] = t]
              /\ desc_out' = [desc_out EXCEPT ![i] = out]
              /\ requested' = [requested EXCEPT ![i] = @ \/ out # "none"]
    /\ context_open' = [context_open EXCEPT ![i] = TRUE]
    /\ pc' = [pc EXCEPT ![i] = "trans"]
    /\ UNCHANGED <<listing, script_vars>>
    /\ UNCHANGED <<faults, run_vars, persistent, manifest, semaphore, manifest_lock,
                   fetch_desc, fetch_trans, trans_out, wrote, committed>>

\* async with self.manifest_lock: the lock is free.
LockFree_m(i) == TRUE
LockFree(i) == manifest_lock = 0

\* 2. Fetch Transcript from YouTube, 3. Save to Markdown; then, with no
\* suspension in between, the lock is taken, the manifest reloaded and this
\* episode's entry set.
FetchTranscriptAndWrite(i) ==
    /\ pc[i] = "trans"
    /\ LockFree(i)
    /\ \E out \in (IF fetch_trans[i] THEN Outcomes ELSE {"none"}) :
          LET t == IF out = "ok" THEN ExtTranscript(i) ELSE transcript_text[i]
              write == description_text[i] # <<>> \/ t # <<>>
          IN  /\ transcript_text' = [transcript_text EXCEPT ![i] = t]
              /\ trans_out' = [trans_out EXCEPT ![i] = out]
              /\ requested' = [requested EXCEPT ![i] = @ \/ out # "none"]
              /\ wrote' = [wrote EXCEPT ![i] = write]
              /\ docs' =
                    IF write
                    THEN [docs EXCEPT ![FilePath(i)] =
                            [exists |-> TRUE,
                             content |-> Markdown(description_text[i], links_text[i], t)]]
                    ELSE docs
              /\ manifest' =
                    [_load_manifest(stored) EXCEPT
                        ![i] = EntryFor(i, description_text[i], t)]
    /\ manifest_lock' = i
    /\ pc' = [pc EXCEPT ![i] = "save"]
    /\ UNCHANGED <<listing, script_vars>>
    /\ UNCHANGED <<faults, run_vars, stored, semaphore, fetch_desc, fetch_trans,
                   description_text, links_text, context_open, desc_out, committed>>

\* _save_manifest, and the lock is released; the task's locals are not used
\* after this.
SaveAndRelease_m(i) ==
    /\ pc[i] = "save"
    /\ stored' = [state |-> "ok",
                  episodes |-> [EmptyEpisodes EXCEPT ![i] = manifest[i]]]
    /\ manifest_lock' = 0
    /\ committed' = [committed EXCEPT ![i] = NewEntry(i)]
    /\ pc' = [pc EXCEPT ![i] = "closing"]
    /\ ResetTask(i)
    /\ UNCHANGED <<listing, script_vars>>
    /\ UNCHANGED <<faults, run_vars, docs, manifest, semaphore, context_open>>
SaveAndRelease(i) ==
    /\ pc[i] = "save"
    /\ stored' = [state |-> "ok", episodes |-> manifest]
    /\ manifest_lock' = 0
    /\ committed' = [committed EXCEPT ![i] = NewEntry(i)]
    /\ pc' = [pc EXCEPT ![i] = "closing"]
    /\ ResetTask(i)
    /\ UNCHANGED <<listing, script_vars>>
    /\ UNCHANGED <<faults, run_vars, docs, manifest, semaphore, context_open>>

\* finally: context.close(); the permit is given back.
CloseContext(i) ==
    /\ pc[i] = "closing"
    /\ pc' = [pc EXCEPT ![i] = "done"]
    /\ semaphore' = semaphore + 1
    /\ context_open' = [context_open EXCEPT ![i] = FALSE]
    /\ UNCHANGED <<listing, script_vars>>
    /\ UNCHANGED <<faults, run_vars, persistent, manifest, manifest_lock, task_vars,
                   hist_vars, committed>>

Terminal == {"skipped", "done"}

\* asyncio.gather returns, browser.close(), "Scraping finished."
EndRun ==
    /\ phase = "running"
    /\ \A i \in Ids : pc[i] \in Terminal
    /\ run_result' = "finished"
    /\ ProcessExit
    /\ UNCHANGED <<listing, script_vars>>
    /\ UNCHANGED <<faults, run, persistent>>

Next ==
    \/ StartRun
    \/ DiscoveryFails
    \/ \E i \in Ids : Admit(i)
    \/ \E i \in Ids : OpenAndFetchDescription(i)
    \/ \E i \in Ids : FetchTranscriptAndWrite(i)
    \/ \E i \in Ids : SaveAndRelease(i)
    \/ \E i \in Ids : CloseContext(i)
    \/ EndRun

Spec == Init /\ [][Next]_vars

\* ------------------------------------------------------------------ faults
\* The steps of process_episode when storage or the browser raises.

\* One more error is raised.
Raise ==
    /\ faults < MaxFaults
    /\ faults' = faults + 1

\* content = file_path.read_text(...) raises for the fetch decision: it is
\* outside the try, the exception leaves the task and the permit is given
\* back on the way out.
AdmitReadFails(i) ==
    /\ phase = "running"
    /\ pc[i] = "queued"
    /\ \A j \in Ids : j < i => pc[j] # "queued"
    /\ GateOpen(i)
    /\ docs[FilePath(i)].exists
    /\ pc' = [pc EXCEPT ![i] = "raised"]
    /\ Raise
    /\ UNCHANGED <<listing, script_vars>>
    /\ UNCHANGED <<run_vars, persistent, manifest, semaphore, manifest_lock,
                   task_vars, context_open, hist_vars, committed>>

\* browser.new_context raises (no context is open), or context.new_page or
\* page.route raises (the context is open): they are before the try, the
\* exception leaves the task and finally: context.close() is not reached.
OpenContextFails(i) ==
    /\ pc[i] = "opening"
    /\ pc' = [pc EXCEPT ![i] = "raised"]
    /\ semaphore' = semaphore + 1
    /\ \E opened \in BOOLEAN :
          context_open' = [context_open EXCEPT ![i] = opened]
    /\ Raise
    /\ UNCHANGED <<listing, script_vars>>
    /\ UNCHANGED <<run_vars, persistent, manifest, manifest_lock, task_vars,
                   hist_vars, committed>>

\* file_path.write_text raises, before the file is opened (the document is
\* as it was) or after (it is cut short); except Exception logs it, the
\* manifest update is not reached.
WriteFails(i) ==
    /\ pc[i] = "trans"
    /\ \E out \in (IF fetch_trans[i] THEN Outcomes ELSE {"none"}) :
          LET t == IF out = "ok" THEN ExtTranscript(i) ELSE transcript_text[i]
          IN  description_text[i] # <<>> \/ t # <<>>
    /\ \E d \in {docs[FilePath(i)], TruncatedDoc} :
          docs' = [docs EXCEPT ![FilePath(i)] = d]
    /\ pc' = [pc EXCEPT ![i] = "closing"]
    /\ ResetTask(i)
    /\ Raise
    /\ UNCHANGED <<listing, script_vars>>
    /\ UNCHANGED <<run_vars, stored, manifest, semaphore, manifest_lock,
                   context_open, committed>>

\* _save_manifest raises, at open (the file is as it was) or inside
\* json.dump (the file is cut short); the lock is released, except Exception
\* logs it.
SaveFails(i) ==
    /\ pc[i] = "save"
    /\ \E f \in {stored, CorruptFile} : stored' = f
    /\ manifest_lock' = 0
    /\ pc' = [pc EXCEPT ![i] = "closing"]
    /\ ResetTask(i)
    /\ Raise
    /\ UNCHANGED <<listing, script_vars>>
    /\ UNCHANGED <<run_vars, docs, manifest, semaphore, context_open, committed>>

\* A task raised: asyncio.gather raises in run(), start() fails and
\* asyncio.run cancels the tasks that are left. A task is never cancelled
\* between its reload and its write-back, where it does not suspend.
RunRaises ==
    /\ phase = "running"
    /\ \E i \in Ids : pc[i] = "raised"
    /\ \A i \in Ids : pc[i] # "save"
    /\ run_result' = "failed"
    /\ ProcessExit
    /\ UNCHANGED <<listing, script_vars>>
    /\ UNCHANGED <<faults, run, persistent>>

NextFaults ==
    \/ Next
    \/ \E i \in Ids : AdmitReadFails(i)
    \/ \E i \in Ids : OpenContextFails(i)
    \/ \E i \in Ids : WriteFails(i)
    \/ \E i \in Ids : SaveFails(i)
    \/ RunRaises

SpecFaults == Init /\ [][NextFaults]_vars

\* ------------------------------------------------- an output directory in use
\* What a run finds for an episode in an output directory that earlier runs
\* and the scripts of the repository have worked on:
\*   "fresh"         no entry and no document;
\*   "complete"      both parts fetched, written and stored as true;
\*   "truncated"     as "complete", then a later write of the document broke
\*                   off after the file was opened;
\*   "deleted"       as "complete", then the document was removed
\*                   (cleanup_data.py unlinks the documents no merged title
\*                   names);
\*   "no_transcript" the document has the description and the links, and
\*                   both flags were set to true (fix_manifest.py sets both
\*                   on the entry of a video id, cleanup_data.py gives a
\*                   merged entry the flags of all its members).
DiskConditions == {"fresh", "complete", "truncated", "deleted", "no_transcript"}

DiskEntry(i, c) ==
    IF c = "fresh" THEN NoEntry
    ELSE [present |-> TRUE, title |-> TitleOf(i), has_description |-> TRUE,
          has_transcript |-> TRUE, last_updated |-> 0]

DiskDoc(i, c) ==
    CASE c = "complete" ->
            [exists |-> TRUE,
             content |-> Markdown(ExtDescription(i), ExtLinks(i), ExtTranscript(i))]
      [] c = "no_transcript" ->
            [exists |-> TRUE,
             content |-> Markdown(ExtDescription(i), ExtLinks(i), <<>>)]
      [] c = "truncated" -> TruncatedDoc
      [] OTHER -> NoDoc

\* The episode whose document has the name f.
EpisodeOfFile(f) == CHOOSE i \in Ids : FilePath(i) = f

\* The scraper is started on such a directory, for its last run.
InitDisk ==
    /\ listing = [i \in Ids |-> VideoTitle(i)]
    /\ run = MaxRuns - 1
    /\ \E c \in [Ids -> DiskConditions] :
          /\ stored =
                IF \A i \in Ids : c[i] = "fresh" THEN AbsentFile
                ELSE [state |-> "ok",
                      episodes |-> [i \in Ids |-> DiskEntry(i, c[i])]]
          /\ docs = [f \in Files |->
                        DiskDoc(EpisodeOfFile(f), c[EpisodeOfFile(f)])]
    /\ InitProcess
    /\ InitScripts

SpecDisk == InitDisk /\ [][Next]_vars

\* ------------------------------------------------------ any listing of titles
\* The scraper is started on an empty output directory with a listing in
\* which each video has any of the titles.
Listings == [Ids -> VideoTitles]

InitTitles ==
    /\ listing \in Listings
    /\ run = MaxRuns - 1
    /\ stored = AbsentFile
    /\ docs = [f \in Files |-> NoDoc]
    /\ InitProcess
    /\ InitScripts

SpecTitles == InitTitles /\ [][Next]_vars

\* --------------------------------------------------------- cleanup_data.py
\* Keys of the manifest cleanup() reads: YouTube video ids, and ids of the
\* older Substack listing, which carry the prefix "substack:".
EntryIds == {"yt1", "yt2", "substack:1", "substack:2"}

\* eid.startswith("substack:")
startswith_substack(eid) == eid \in {"substack:1", "substack:2"}

\* Titles are sequences of one-character atoms: letters, " " a blank, "?" a
\* character of the class [\\/*?:"<>|], "'" a quote, "mark" the decorative
\* character the title may start with.
Quotes == {"'"}
Titles ==
    { <<"a", " ", "b", " ", "c">>,
      <<"A", "'">>,
      <<"c", "?">>,
      <<"mark", " ", "b", " ", "c">>,
      <<"?">> }

\* str.lower() on one atom
lower(a) ==
    CASE a = "A" -> "a"
      [] a = "B" -> "b"
      [] a = "C" -> "c"
      [] OTHER   -> a

IsBlank(a) == a = " "

\* str.split(): the words, in order
RECURSIVE split(_)
split(s) ==
    IF s = <<>> THEN <<>>
    ELSE IF IsBlank(Head(s)) THEN split(Tail(s))
    ELSE LET n == FirstIndex(s, IsBlank)
         IN  <<SubSeq(s, 1, n - 1)>> \o split(SubSeq(s, n, Len(s)))

normalize_title(t) ==
    LET NotQuote(a) == a \notin Quotes
        Keep(a) == a \notin ProblemChars
        joined == StripBlanks(CollapseBlanks(SelectSeq(SelectSeq(t, NotQuote), Keep)))
    IN  [k \in 1..Len(joined) |-> lower(joined[k])]

\* set(normalize_title(title).split())
Words(t) ==
    LET ws == split(normalize_title(t))
    IN  {ws[k] : k \in 1..Len(ws)}

\* The word set of each title, computed once.
TitleWords == [t \in Titles |-> Words(t)]

Min(a, b) == IF a < b THEN a ELSE b

\* Both word sets are non-empty and overlap / min(len, len) > 0.5.
Match(t1, t2) ==
    LET t1_words == TitleWords[t1]
        t2_words == TitleWords[t2]
        overlap == Cardinality(t1_words \cap t2_words)
    IN  /\ t1_words # {}
        /\ t2_words # {}
        /\ 2 * overlap > Min(Cardinality(t1_words), Cardinality(t2_words))

\* The flags and the date an entry carries, by its id.
EntryOf(eid, title) ==
    [id |-> eid,
     title |-> title,
     has_description |-> eid \in {"yt1", "substack:2"},
     has_transcript |-> eid \in {"yt2", "substack:2"},
     last_updated |-> CASE eid = "yt1" -> 1 [] eid = "yt2" -> 2
                        [] eid = "substack:1" -> 3 [] OTHER -> 1]

\* The key sequences of n entries, in the order of the file; a key occurs
\* once.
KeySeqs(n) ==
    {s \in [1..n -> EntryIds] : \A j, k \in 1..n : j # k => s[j] # s[k]}

\* The manifests of up to MaxEntries entries.
DataManifests ==
    UNION {
        {[k \in 1..n |-> EntryOf(ids[k], titles[k])] :
            ids \in KeySeqs(n), titles \in [1..n -> Titles]}
        : n \in 0..MaxEntries }

\* The trailer's document, which cleanup() never deletes.
Trailer == <<"trailer">>

\* The documents of DATA_DIR: one by title in the manifest, and the trailer.
FilesFor(eps) == {_clean_filename(eps[k].title) : k \in 1..Len(eps)} \cup {Trailer}

\* current_group of the seed ids[i]: the seed, then each later entry that is
\* not in a group yet and whose title matches the seed's.
current_group(eps, i, processed_ids) ==
    LET InGroup(j) ==
            \/ j = i
            \/ /\ j > i
               /\ j \notin processed_ids
               /\ Match(eps[i].title, eps[j].title)
    IN  SelectSeq([k \in 1..Len(eps) |-> k], InGroup)

\* 1. Group: the outer loop from ids[i] on, as positions in the file.
RECURSIVE GroupFrom(_, _, _)
GroupFrom(eps, i, processed_ids) ==
    IF i > Len(eps) THEN <<>>
    ELSE IF i \in processed_ids THEN GroupFrom(eps, i + 1, processed_ids)
    ELSE LET g == current_group(eps, i, processed_ids)
         IN  <<g>> \o GroupFrom(eps, i + 1,
                                processed_ids \cup {g[k] : k \in 1..Len(g)})

\* The entries of a group, in the order of the file.
Members(eps, g) == [k \in 1..Len(g) |-> eps[g[k]]]

\* Preference: YouTube ID (not starting with substack:)
best_eid_m(members) == members[1].id
best_eid(members) ==
    LET IsYoutube(e) == ~startswith_substack(e.id)
        youtube_ids == SelectSeq(members, IsYoutube)
    IN  IF youtube_ids # <<>> THEN youtube_ids[1].id ELSE members[1].id

\* t.startswith of the decorative character
startswith_mark(t) == t # <<>> /\ t[1] = "mark"

\* The loop over titles, from the best title so far.
RECURSIVE best_title_from(_, _)
best_title_from(titles, best) ==
    IF titles = <<>> THEN best
    ELSE LET t == Head(titles)
         IN  best_title_from(Tail(titles),
                IF ~startswith_mark(t) /\ Len(t) > Len(best) THEN t ELSE best)

best_title(members) ==
    LET titles == [k \in 1..Len(members) |-> members[k].title]
    IN  best_title_from(titles, titles[1])

Max(S) == CHOOSE x \in S : \A y \in S : y <= x

\* merged_episodes[best_eid] = {...}
MergeGroup_m(members) ==
    [id |-> best_eid(members),
     title |-> best_title(members),
     has_description |-> members[1].has_description,
     has_transcript |-> members[1].has_transcript,
     last_updated |-> members[1].last_updated]
MergeGroup(members) ==
    [id |-> best_eid(members),
     title |-> best_title(members),
     has_description |-> \E k \in 1..Len(members) : members[k].has_description,
     has_transcript |-> \E k \in 1..Len(members) : members[k].has_transcript,
     last_updated |-> Max({members[k].last_updated : k \in 1..Len(members)})]

scraper_vars ==
    <<listing, run, phase, nUrls, stored, docs, manifest, semaphore, manifest_lock, pc,
      fetch_desc, fetch_trans, description_text, links_text, transcript_text,
      context_open, requested, desc_out, trans_out, wrote, committed,
      run_result, start_ok, faults>>

\* cleanup(): the manifest is regrouped and written, then every document
\* that is not named by a merged title is deleted. "Manifest not found."
\* when there is no file.
cleanup ==
    /\ cleanups < MaxCleanups
    /\ cleanups' = cleanups + 1
    /\ IF ~data_manifest.exists
       THEN UNCHANGED <<data_manifest, data_files, groups>>
       ELSE LET episodes == data_manifest.episodes
                gs == GroupFrom(episodes, 1, {})
                merged_episodes ==
                    [k \in 1..Len(gs) |-> MergeGroup(Members(episodes, gs[k]))]
                files_to_keep ==
                    {_clean_filename(merged_episodes[k].title) : k \in 1..Len(gs)}
            IN  /\ data_manifest' = [exists |-> TRUE, episodes |-> merged_episodes]
                /\ groups' =
                      [k \in 1..Len(gs) |->
                          [key |-> merged_episodes[k].id,
                           members |-> Members(episodes, gs[k])]]
                /\ data_files' = data_files \cap (files_to_keep \cup {Trailer})
    /\ UNCHANGED <<scraper_vars, raw_text, cleaned>>

\* cleanup_data.py is run on a data directory.
InitCleanup ==
    /\ InitScraper
    /\ data_manifest \in
          {NoManifest} \cup {[exists |-> TRUE, episodes |-> m] : m \in DataManifests}
    /\ data_files = FilesFor(data_manifest.episodes)
    /\ groups = <<>>
    /\ cleanups = 0
    /\ raw_text = <<>>
    /\ cleaned = NotCalled

NextCleanup == cleanup

SpecCleanup == InitCleanup /\ [][NextCleanup]_vars

\* -------------------------------------------------------- _clean_transcript
\* Atoms of the raw text: "S" is config.TRANSCRIPT_START_MARKER, "E" is
\* config.TRANSCRIPT_END_MARKER, "av" a chunk holding one of
\* config.AVOID_PHRASES, "t" a chunk of other text, " " a blank, "nl" a
\* newline.
RawAtoms == {"S", "E", "av", "t", " ", "nl"}
AVOID_PHRASES == {"av"}

RawTexts == UNION {[1..n -> RawAtoms] : n \in 0..MaxRawLen}

IsStart(a) == a = "S"
IsEnd(a) == a = "E"
IsNewline(a) == a = "nl"
IsSpace(a) == a \in {" ", "nl"}

\* str.strip() of blanks and newlines
RECURSIVE strip_ws(_)
strip_ws(s) ==
    IF s # <<>> /\ IsSpace(Head(s)) THEN strip_ws(Tail(s))
    ELSE IF s # <<>> /\ IsSpace(s[Len(s)]) THEN strip_ws(SubSeq(s, 1, Len(s) - 1))
    ELSE s

\* content.split('\n')
RECURSIVE split_lines(_)
split_lines(s) ==
    LET n == FirstIndex(s, IsNewline)
    IN  IF n > Len(s) THEN <<s>>
        ELSE <<SubSeq(s, 1, n - 1)>> \o split_lines(SubSeq(s, n + 1, Len(s)))

\* "\n".join(lines)
RECURSIVE join_lines(_)
join_lines(lines) ==
    IF lines = <<>> THEN <<>>
    ELSE IF Len(lines) = 1 THEN lines[1]
    ELSE lines[1] \o <<"nl">> \o join_lines(Tail(lines))

\* re.search of START(.*?)END with re.DOTALL: group(1) lies between the
\* first start marker and the first end marker after it (the _m variant
\* takes the last end marker).
LastIndex(s, a) ==
    IF \E k \in 1..Len(s) : s[k] = a
    THEN CHOOSE k \in 1..Len(s) : s[k] = a /\ \A j \in (k + 1)..Len(s) : s[j] # a
    ELSE Len(s) + 1

_clean_transcript_from(rest, e) ==
    LET content == strip_ws(SubSeq(rest, 1, e - 1))
        KeepLine(line) ==
            /\ strip_ws(line) # <<>>
            /\ ~\E k \in 1..Len(line) : line[k] \in AVOID_PHRASES
        kept == SelectSeq(split_lines(content), KeepLine)
    IN  join_lines([k \in 1..Len(kept) |-> strip_ws(kept[k])])

_clean_transcript_m(raw) ==
    LET s == FirstIndex(raw, IsStart)
        rest == SubSeq(raw, s + 1, Len(raw))
        e == LastIndex(rest, "E")
    IN  IF s > Len(raw) \/ e > Len(rest) THEN <<>>
        ELSE _clean_transcript_from(rest, e)

_clean_transcript(raw) ==
    LET s == FirstIndex(raw, IsStart)
        rest == SubSeq(raw, s + 1, Len(raw))
        e == FirstIndex(rest, IsEnd)
    IN  IF s > Len(raw) \/ e > Len(rest) THEN <<>>
        ELSE _clean_transcript_from(rest, e)

\* One call of _clean_transcript(raw_text).
CleanTranscript ==
    /\ cleaned = NotCalled
    /\ cleaned' = _clean_transcript(raw_text)
    /\ UNCHANGED <<scraper_vars, data_manifest, data_files, groups, cleanups,
                   raw_text>>

InitTranscript ==
    /\ InitScraper
    /\ data_manifest = NoManifest
    /\ data_files = {}
    /\ groups = <<>>
    /\ cleanups = 0
    /\ raw_text \in RawTexts
    /\ cleaned = NotCalled

NextTranscript == CleanTranscript

SpecTranscript == InitTranscript /\ [][NextTranscript]_vars

\* ================================================================== claims

\* C1: across any sequence of process_episode executions, the stored flags
\* has_description and has_transcript of an id never change from true to
\* false.
C1_NoRegression ==
    [][\A i \in Ids :
         /\ stored.episodes[i].has_description => stored'.episodes[i].has_description
         /\ stored.episodes[i].has_transcript => stored'.episodes[i].has_transcript]_vars

\* C2: every task that committed in this run has its own entry in the
\* stored manifest, with the title and flags it computed, whatever the other
\* tasks committed since.
C2_NoLostUpdate ==
    \A i \in Ids :
        committed[i].present =>
            /\ stored.state = "ok"
            /\ stored.episodes[i] = committed[i]

\* All the tasks of a run have committed, two of them being past the gate
\* together.
C2_Witness ==
    /\ \A i \in Ids : committed[i].present /\ stored.episodes[i] = committed[i]
    /\ \E i, j \in Ids : i # j /\ pc[i] = "closing" /\ pc[j] = "closing"

\* C4: at most one task is between its reload of the manifest and its
\* write-back, and while a task is there no step of another task reloads or
\* writes the manifest.
C4_MutualExclusion ==
    /\ [](\A i, j \in Ids : i # j => ~(pc[i] = "save" /\ pc[j] = "save"))
    /\ [][\A i \in Ids :
            pc[i] = "save" /\ pc'[i] = "save" =>
                stored' = stored /\ manifest' = manifest]_vars

\* One task is inside the critical section while another, its document
\* written or not, waits for the lock.
C4_Witness ==
    \E i, j \in Ids : i # j /\ pc[i] = "save" /\ pc[j] = "trans"

\* The tasks holding a permit of the gate.
Active == {i \in Ids : pc[i] \in {"opening", "trans", "save", "closing"}}

\* C5: at most CONCURRENCY_LIMIT tasks are past the gate, and at most that
\* many hold an open browsing context.
C5_GateBound ==
    /\ Cardinality(Active) <= CONCURRENCY_LIMIT
    /\ Cardinality({i \in Ids : context_open[i]}) <= CONCURRENCY_LIMIT
    /\ semaphore = CONCURRENCY_LIMIT - Cardinality(Active)

\* Two contexts are open and a third task waits at the gate.
C5_Witness ==
    /\ Cardinality({i \in Ids : context_open[i]}) = CONCURRENCY_LIMIT
    /\ \E i \in Ids : pc[i] = "queued"

\* C6: a task that decides that nothing is needed ends without a browsing
\* context and without a request, and its step leaves the documents, the
\* in-memory manifest and the stored manifest as they were.
C6_SkipChangesNothing ==
    /\ [](\A i \in Ids :
            pc[i] = "skipped" =>
                ~context_open[i] /\ ~requested[i] /\ ~wrote[i] /\ ~committed[i].present)
    /\ [][\A i \in Ids :
            pc[i] # "skipped" /\ pc'[i] = "skipped" =>
                /\ docs' = docs
                /\ manifest' = manifest
                /\ stored' = stored
                /\ context_open' = context_open
                /\ requested' = requested]_vars

\* A task has taken the skip path, over an entry written by an earlier run.
C6_Witness ==
    \E i \in Ids : pc[i] = "skipped" /\ manifest[i].present /\ manifest[i].last_updated < run

\* The content of section h of a document, by the layout the writer gives
\* it: from the heading to the blank space that ends the section, which is
\* the one followed by another heading or by the end of the document.
SectionOf(content, h) ==
    IF ~Contains(content, h) THEN <<>>
    ELSE LET IsH(a) == a = h
             rest == SubSeq(content, FirstIndex(content, IsH) + 1, Len(content))
             Ends(k) ==
                /\ rest[k] = "nl"
                /\ k = Len(rest) \/ rest[k + 1] \in {"HD", "HL", "HT"}
             end == CHOOSE k \in 1..Len(rest) :
                        Ends(k) /\ \A j \in 1..(k - 1) : ~Ends(j)
         IN  SubSeq(rest, 1, end - 1)

C7_FailedFetchKeepsSection ==
    [][\A i \in Ids :
         pc[i] = "trans" /\ pc'[i] = "save" =>
            LET old == docs[FilePath(i)].content
                new == docs'[FilePath(i)].content
            IN  /\ desc_out[i] = "fail" /\ Contains(old, "HD") =>
                    Contains(new, "HD") /\ SectionOf(new, "HD") = SectionOf(old, "HD")
                /\ trans_out'[i] = "fail" /\ Contains(old, "HT") =>
                    Contains(new, "HT") /\ SectionOf(new, "HT") = SectionOf(old, "HT")]_vars

\* C8: in a call that needs both parts the transcript fetch is made whatever
\* the description fetch gave, and when the call commits, each part that was
\* fetched is in the document as fetched and stored as true in the manifest.
C8_PartialFailureIsolation ==
    [][\A i \in Ids :
         pc[i] = "save" /\ pc'[i] = "closing" /\ fetch_desc[i] /\ fetch_trans[i] =>
            LET doc == docs'[FilePath(i)]
            IN  /\ trans_out[i] # "none"
                /\ desc_out[i] = "ok" =>
                    /\ doc.exists
                    /\ SectionOf(doc.content, "HD") = ExtDescription(i)
                    /\ stored'.episodes[i].has_description
                /\ trans_out[i] = "ok" =>
                    /\ doc.exists
                    /\ SectionOf(doc.content, "HT") = ExtTranscript(i)
                    /\ stored'.episodes[i].has_transcript]_vars

\* A call that needed both parts got the description and not the
\* transcript, and is about to save its entry.
C8_Witness ==
    \E i \in Ids :
        /\ pc[i] = "save" /\ fetch_desc[i] /\ fetch_trans[i]
        /\ desc_out[i] = "ok" /\ trans_out[i] = "fail"
        /\ wrote[i]

\* C9: for one process_episode call the document write and the manifest
\* update are committed together or not at all: when the call leaves its
\* write and commit steps, its document was written or changed exactly if
\* its entry was saved in the manifest file.
C9_DocAndManifestTogether ==
    [][\A i \in Ids :
         pc[i] \in {"trans", "save"} /\ pc'[i] = "closing" =>
            ((wrote[i] \/ docs'[FilePath(i)] # docs[FilePath(i)])
                <=> stored'.episodes[i] = NewEntry(i) /\ stored' # stored)]_vars

\* C10: an error raised in one task stays in that task: run() never fails,
\* and when run() ends every scheduled task has reached a terminal state.
C10_ErrorsContained ==
    /\ [](run_result # "failed")
    /\ [][phase = "running" /\ phase' = "idle" =>
            \A i \in Ids : pc[i] \in Terminal]_vars

\* C11: a manifest file that exists but cannot be loaded is never replaced
\* by a commit: no step overwrites an unloadable file with a manifest built
\* from the empty default.
C11_NoCommitOverUnloadable ==
    [][stored.state = "corrupt" => stored'.state = "corrupt"]_vars

\* C12: a key of the stored manifest changes only in the commit step of the
\* task of that very id: a commit for one id leaves every other key as it
\* was in storage just before, and a key whose task does not commit in a run
\* is the same at the end of the run.
C12_CommitFrame ==
    [][\A j \in Ids :
         stored'.episodes[j] # stored.episodes[j] =>
            pc[j] = "save" /\ pc'[j] = "closing"]_vars

\* A task has committed in this run while the entry of another id, stored
\* in an earlier run and skipped in this one, is in the file.
C12_Witness ==
    \E i, j \in Ids :
        /\ i # j
        /\ committed[i].present
        /\ stored.episodes[i] = committed[i]
        /\ pc[j] = "skipped"
        /\ stored.episodes[j].present
        /\ stored.episodes[j].last_updated < run

\* C13: after cleanup(), two entries of its input are in the same group
\* exactly if their normalized titles share more than 50% of the words of
\* the shorter one.
C13_ClusterCorrectness ==
    \A k, l \in 1..Len(groups) :
        \A a \in 1..Len(groups[k].members), b \in 1..Len(groups[l].members) :
            (k # l \/ a # b) =>
                (Match(groups[k].members[a].title, groups[l].members[b].title)
                    <=> k = l)

\* The positions, in a group, of the members with a YouTube id.
YoutubeMembers(m) == {a \in 1..Len(m) : ~startswith_substack(m[a].id)}

\* C14: a group with one YouTube id and one or more "substack:" ids is
\* stored under the YouTube id, wherever that member stands in the group.
C14_PrimaryIdIsKey ==
    \A k \in 1..Len(groups) :
        LET m == groups[k].members
        IN  Cardinality(YoutubeMembers(m)) = 1 /\ Len(m) >= 2 =>
                /\ \A a \in YoutubeMembers(m) : groups[k].key = m[a].id
                /\ data_manifest.episodes[k].id = groups[k].key

\* cleanup() has merged a group whose first member has a "substack:" id and
\* whose only YouTube id comes later in the file.
C14_Witness ==
    \E k \in 1..Len(groups) :
        LET m == groups[k].members
        IN  /\ Cardinality(YoutubeMembers(m)) = 1
            /\ Len(m) >= 2
            /\ startswith_substack(m[1].id)

\* Positions of raw_text strictly between the first start marker and the
\* first end marker after it; empty when there is no such pair.
FirstStart == CHOOSE s \in 1..(Len(raw_text) + 1) :
    /\ s <= Len(raw_text) => raw_text[s] = "S"
    /\ \A j \in 1..(s - 1) : j <= Len(raw_text) => raw_text[j] # "S"
FirstEndAfter == CHOOSE e \in (FirstStart + 1)..(Len(raw_text) + 2) :
    /\ e <= Len(raw_text) => raw_text[e] = "E"
    /\ \A j \in (FirstStart + 1)..(e - 1) : j <= Len(raw_text) => raw_text[j] # "E"
MarkerPair == FirstEndAfter <= Len(raw_text)
Between == IF MarkerPair THEN (FirstStart + 1)..(FirstEndAfter - 1) ELSE {}

\* The characters of line n of that text (lines are counted from 0), and
\* those of them that are not blanks.
LineChars(n) ==
    {k \in Between :
        /\ raw_text[k] # "nl"
        /\ Cardinality({j \in Between : j < k /\ raw_text[j] = "nl"}) = n}
LineInk(n) == {k \in LineChars(n) : raw_text[k] # " "}

\* Line n has something in it and no avoid phrase.
LineKept(n) ==
    /\ LineInk(n) # {}
    /\ \A k \in LineChars(n) : raw_text[k] # "av"

\* Line n without its leading and trailing blanks.
LineTrimmed(n) ==
    LET first == CHOOSE k \in LineInk(n) : \A j \in LineInk(n) : k <= j
        last == CHOOSE k \in LineInk(n) : \A j \in LineInk(n) : j <= k
    IN  SubSeq(raw_text, first, last)

\* The kept lines from line n on, trimmed, with one newline between them.
RECURSIVE KeptLinesFrom(_)
KeptLinesFrom(n) ==
    IF n > MaxRawLen + 1 THEN <<>>
    ELSE IF ~LineKept(n) THEN KeptLinesFrom(n + 1)
    ELSE LineTrimmed(n)
            \o (IF \E m \in (n + 1)..(MaxRawLen + 1) : LineKept(m)
                THEN <<"nl">> ELSE <<>>)
            \o KeptLinesFrom(n + 1)

\* C15: _clean_transcript returns the text strictly between the first start
\* marker and the first end marker after it, without the lines that hold an
\* avoid phrase, the other non-empty lines trimmed and joined by newlines;
\* it returns the empty text when there is no such pair of markers.
C15_CleanTranscript ==
    cleaned # NotCalled => cleaned = KeptLinesFrom(0)

\* A call whose text has the two markers, a second end marker further on, a
\* line with an avoid phrase that is dropped and a line that is kept.
C15_Witness ==
    /\ cleaned # NotCalled
    /\ cleaned # <<>>
    /\ MarkerPair
    /\ \E k \in Between : raw_text[k] = "av"
    /\ \E k \in (FirstEndAfter + 1)..Len(raw_text) : raw_text[k] = "E"

\* One of the three headings.
IsHeading(a) == a \in {"HD", "HL", "HT"}

\* The headings of a document written from the texts d, l and t: one for
\* each text that is not empty, in the order Description, Links, Transcript.
HeadingsFor(d, l, t) ==
    (IF d # <<>> THEN <<"HD">> ELSE <<>>)
    \o (IF l # <<>> THEN <<"HL">> ELSE <<>>)
    \o (IF t # <<>> THEN <<"HT">> ELSE <<>>)

\* C16: a document written by process_episode has a Description, Links or
\* Transcript heading only for a section whose text is not empty, each
\* heading is followed by that text, the headings stand in that order, and
\* a description without a transcript gives a Description section and no
\* Transcript heading.
C16_EmptySectionsOmitted ==
    [][\A i \in Ids :
         pc[i] = "trans" /\ pc'[i] = "save" /\ wrote'[i] =>
            LET c == docs'[FilePath(i)].content
            IN  /\ SelectSeq(c, IsHeading) =
                      HeadingsFor(description_text[i], links_text[i],
                                  transcript_text'[i])
                /\ \A k \in 1..Len(c) :
                      IsHeading(c[k]) =>
                          k < Len(c) /\ ~IsHeading(c[k + 1]) /\ c[k + 1] # "nl"]_vars

\* A task has written a document from a description and no transcript.
C16_Witness ==
    \E i \in Ids :
        /\ pc[i] = "save"
        /\ wrote[i]
        /\ description_text[i] # <<>>
        /\ transcript_text[i] = <<>>
        /\ Contains(docs[FilePath(i)].content, "HD")
        /\ ~Contains(docs[FilePath(i)].content, "HT")

\* run() has returned at the YouTube listing, before the Spotify listing is
\* asked for.
ReturnedBeforeSpotify == run_result = "no_entries"

\* C17: a listing that cannot be retrieved gives no reference, the other
\* listing is still asked for and its episodes are processed: run() never
\* returns at a failed YouTube listing without asking Spotify, and a run
\* whose Spotify listing gave no URL schedules every YouTube entry.
C17_SourcesIndependent ==
    /\ [](~ReturnedBeforeSpotify)
    /\ [][phase = "idle" /\ phase' = "running" =>
            \A i \in Ids : pc'[i] = "queued"]_vars

\* C18: every scheduled task ends in a terminal state with its permit given
\* back and its browsing context closed, and run() ends after that: a task
\* that has ended holds no open context, and when run() ends every task is
\* terminal, every permit is free and no context is open.
C18_TasksEndClean ==
    /\ [](\A i \in Ids :
            pc[i] \in Terminal \cup {"raised"} => ~context_open[i])
    /\ [][phase = "running" /\ phase' = "idle" =>
            /\ \A i \in Ids : pc[i] \in Terminal /\ ~context_open[i]
            /\ semaphore = CONCURRENCY_LIMIT]_vars

\* C19: the flag a commit stores for a part is (the part was fetched in this
\* call) or (the stored flag was true and the fetch of the part was not
\* attempted in this call).
C19_FlagRecompute ==
    [][\A i \in Ids :
         pc[i] = "save" /\ pc'[i] = "closing" /\ stored' # stored =>
            /\ stored'.episodes[i].has_description =
                  (\/ desc_out[i] = "ok"
                   \/ stored.episodes[i].has_description /\ desc_out[i] = "none")
            /\ stored'.episodes[i].has_transcript =
                  (\/ trans_out[i] = "ok"
                   \/ stored.episodes[i].has_transcript /\ trans_out[i] = "none")]_vars

\* C20: the description is to be fetched exactly if the manifest flag
\* has_description is false or a document exists that lacks a Description
\* section or is shorter than MinDocLen characters; the transcript is to be
\* fetched exactly if the manifest flag has_transcript is false.
C20_FetchDecision ==
    [][\A i \in Ids :
         pc[i] = "queued" /\ pc'[i] \in {"opening", "skipped"} =>
            LET f == docs[FilePath(i)]
                needs_desc ==
                    \/ ~StatusGet(i, "has_description")
                    \/ f.exists /\ (~Contains(f.content, "HD")
                                      \/ CharLen(f.content) < MinDocLen)
                needs_trans == ~StatusGet(i, "has_transcript")
            IN  IF pc'[i] = "opening"
                THEN fetch_desc'[i] = needs_desc /\ fetch_trans'[i] = needs_trans
                ELSE ~needs_desc /\ ~needs_trans]_vars

\* The stored manifest claims the section with heading h for episode i and
\* the document on disk does not hold it.
ClaimsMissing(i, flag, h) ==
    /\ stored.episodes[i].present
    /\ stored.episodes[i][flag]
    /\ ~(docs[FilePath(i)].exists /\ Contains(docs[FilePath(i)].content, h))

\* C21: when the stored manifest claims a section that the document lacks,
\* the next call for the id does not skip and fetches that section, and when
\* the call has committed no stored flag claims a section that the document
\* lacks.
C21_DisagreementRepaired ==
    /\ [][\A i \in Ids :
            pc[i] = "queued" /\ pc'[i] # "queued" =>
                /\ ClaimsMissing(i, "has_description", "HD") =>
                      pc'[i] = "opening" /\ fetch_desc'[i]
                /\ ClaimsMissing(i, "has_transcript", "HT") =>
                      pc'[i] = "opening" /\ fetch_trans'[i]]_vars
    /\ [][\A i \in Ids :
            pc[i] = "save" /\ pc'[i] = "closing" =>
                /\ ~ClaimsMissing(i, "has_description", "HD")'
                /\ ~ClaimsMissing(i, "has_transcript", "HT")']_vars

\* The positions, in a group, of the members whose title does not start
\* with the decorative character.
PlainMembers(m) == {a \in 1..Len(m) : ~startswith_mark(m[a].title)}

\* C22: the title of a merged entry is the longest of the members' titles
\* that do not start with the decorative character, and the first member's
\* title only when every member's title starts with it.
C22_BestTitle ==
    \A k \in 1..Len(groups) :
        LET m == groups[k].members
            title == data_manifest.episodes[k].title
        IN  IF PlainMembers(m) = {}
            THEN title = m[1].title
            ELSE \E a \in PlainMembers(m) :
                    /\ title = m[a].title
                    /\ \A b \in PlainMembers(m) : Len(m[b].title) <= Len(title)

\* C23: cleanup() gives each merged entry the OR of its members' flags and
\* the greatest of their dates, and every entry of the manifest it read is a
\* member of a group whose merged entry has each flag the entry had and a
\* date that is not earlier.
C23_FlagsMerged ==
    [][cleanups' = cleanups + 1 /\ data_manifest.exists =>
         LET before == data_manifest.episodes
             after == data_manifest'.episodes
         IN  /\ Len(after) = Len(groups')
             /\ \A k \in 1..Len(after) :
                   LET m == groups'[k].members
                   IN  /\ after[k].has_description
                            = (\E a \in 1..Len(m) : m[a].has_description)
                       /\ after[k].has_transcript
                            = (\E a \in 1..Len(m) : m[a].has_transcript)
                       /\ \E a \in 1..Len(m) : after[k].last_updated = m[a].last_updated
                       /\ \A a \in 1..Len(m) : m[a].last_updated <= after[k].last_updated
             /\ \A j \in 1..Len(before) :
                   \E k \in 1..Len(after) :
                      /\ \E a \in 1..Len(groups'[k].members) :
                            groups'[k].members[a] = before[j]
                      /\ before[j].has_description => after[k].has_description
                      /\ before[j].has_transcript => after[k].has_transcript
                      /\ before[j].last_updated <= after[k].last_updated]_vars

\* cleanup() has merged a group whose first member has neither flag and
\* another member has a flag and another date.
C23_Witness ==
    \E k \in 1..Len(groups) :
        LET m == groups[k].members
        IN  /\ Len(m) >= 2
            /\ ~m[1].has_description /\ ~m[1].has_transcript
            /\ \E a \in 2..Len(m) :
                  /\ m[a].has_description \/ m[a].has_transcript
                  /\ m[a].last_updated # m[1].last_updated
            /\ data_manifest.episodes[k].has_description
                  \/ data_manifest.episodes[k].has_transcript

\* C24: after cleanup() no two entries of the manifest have the same key or
\* titles that match (word overlap above 50% of the shorter title), and a
\* cleanup() run on the output of cleanup() merges nothing.
C24_NoDuplicateKeys ==
    /\ [](cleanups >= 1 /\ data_manifest.exists =>
            \A j, k \in 1..Len(data_manifest.episodes) :
                j # k =>
                    /\ data_manifest.episodes[j].id # data_manifest.episodes[k].id
                    /\ ~Match(data_manifest.episodes[j].title,
                              data_manifest.episodes[k].title))
    /\ [][cleanups >= 1 /\ cleanups' = cleanups + 1 /\ data_manifest.exists =>
            Len(data_manifest'.episodes) = Len(data_manifest.episodes)]_vars

\* Task j has written a document in this run: it is past its write, or it
\* has committed an entry with a section.
HasWritten(j) ==
    \/ wrote[j]
    \/ committed[j].present
          /\ (committed[j].has_description \/ committed[j].has_transcript)

\* C25: the tasks of two different ids are independent as to documents,
\* whatever the titles: the write of one task leaves the document that the
\* task of another id has written as it was, and a task reads no document
\* that the task of another id has written.
C25_DocumentsIndependent ==
    /\ [][\A i, j \in Ids :
            i # j /\ pc[i] = "trans" /\ pc'[i] = "save" /\ HasWritten(j) =>
                docs'[FilePath(j)] = docs[FilePath(j)]]_vars
    /\ [][\A i, j \in Ids :
            i # j /\ pc[i] = "opening" /\ pc'[i] = "trans" /\ HasWritten(j) =>
                FilePath(j) # FilePath(i)]_vars

\* C26: once the task of an id has committed, the stored manifest claims no
\* section for that id that its document does not hold.
C26_ManifestWithinDocument ==
    \A i \in Ids :
        committed[i].present =>
            /\ ~ClaimsMissing(i, "has_description", "HD")
            /\ ~ClaimsMissing(i, "has_transcript", "HT")

\* C27: the sections a call reads back from a document are the contents
\* that were written to it, and a call that obtains no new data writes a
\* document with the same Description, Links and Transcript sections.
C27_ReadBack ==
    /\ [][\A i \in Ids :
            pc[i] = "opening" /\ pc'[i] = "trans" /\ docs[FilePath(i)].exists =>
                LET c == docs[FilePath(i)].content
                IN  /\ desc_out'[i] # "ok" =>
                          /\ description_text'[i] = SectionOf(c, "HD")
                          /\ links_text'[i] = SectionOf(c, "HL")
                    /\ transcript_text'[i] = SectionOf(c, "HT")]_vars
    /\ [][\A i \in Ids :
            /\ pc[i] = "trans" /\ pc'[i] = "save"
            /\ docs[FilePath(i)].exists
            /\ desc_out[i] # "ok" /\ trans_out'[i] # "ok"
            =>
                LET old == docs[FilePath(i)].content
                    new == docs'[FilePath(i)].content
                IN  /\ SectionOf(new, "HD") = SectionOf(old, "HD")
                    /\ SectionOf(new, "HL") = SectionOf(old, "HL")
                    /\ SectionOf(new, "HT") = SectionOf(old, "HT")]_vars

====
